---- MODULE Spec2Model ----
\* Model of the k3s-infra provisioning program (src/k3s-infra/__main__.py):
\* twelve declared resources, the deferred values that link them, the two
\* startup scripts rendered from deferred addresses, and the control node's
\* own startup script.
EXTENDS Integers, Sequences, FiniteSets, TLC

\* ---------------------------------------------------------------- bounds
\* Number of free private addresses in the subnet the provider may hand out.
NumAddrs == 4
\* Number of creation calls the provider may answer with an error in one run.
MaxFailures == 1

\* ------------------------------------------------------------ resources
vpc == "my-vpc"
public_subnet == "public-subnet"
igw == "internet-gateway"
public_route_table == "public-route-table"
route == "igw-route"
route_table_association == "public-route-table-association"
lb_security_group == "lb-secgrp"
k3s_security_group == "k3s-secgrp"
master_instance == "master-instance"
worker1_instance == "worker1-instance"
worker2_instance == "worker2-instance"
nginx_instance == "nginx-instance"

Instances == {master_instance, worker1_instance, worker2_instance, nginx_instance}

Nodes ==
  {vpc, public_subnet, igw, public_route_table, route, route_table_association,
   lb_security_group, k3s_security_group} \cup Instances

\* ------------------------------------------------------- configuration
\* What the stack configuration holds for "k3s_token"; "" stands for a
\* missing (None) or empty value, both falsy for Python's `or`.
ConfigValues == {"my-token"}

ConfigOr(v, default) == IF v = "" THEN default ELSE v

\* ------------------------------------------------------------- strings
\* The positions at which sub occurs in s.
Hits(s, sub) ==
  {i \in 1..(Len(s) - Len(sub) + 1) : SubSeq(s, i, i + Len(sub) - 1) = sub}

\* Python's str.replace for a non-empty old: every non-overlapping
\* occurrence of old, scanning from the left, is replaced by new.
\* (v \in {s} binds the text to its value, so that it is computed once.)
RECURSIVE Replace(_, _, _)
Replace(s, old, new) ==
  CHOOSE r \in
    { IF Hits(v, old) = {} THEN v
      ELSE LET j == CHOOSE h \in Hits(v, old) : \A g \in Hits(v, old) : h <= g
           IN SubSeq(v, 1, j - 1) \o new \o
              Replace(SubSeq(v, j + Len(old), Len(v)), old, new)
      : v \in {s} } : TRUE

\* TRUE iff sub occurs in s.
Contains(s, sub) == Hits(s, sub) # {}

\* Number of (possibly overlapping) occurrences of sub in s.
Occurrences(s, sub) == Cardinality(Hits(s, sub))

\* The template of the load balancer's startup script.
nginx_user_data ==
  "#!/bin/bash\n" \o
  "apt-get update\n" \o
  "apt-get install -y nginx\n" \o
  "\n" \o
  "# Configure nginx as load balancer for K3s API server\n" \o
  "cat > /etc/nginx/nginx.conf << 'EOF'\n" \o
  "events {}\n" \o
  "stream {\n" \o
  "    upstream k3s_servers {\n" \o
  "        server MASTER_PRIVATE_IP:6443;\n" \o
  "        server WORKER1_PRIVATE_IP:6443;\n" \o
  "        server WORKER2_PRIVATE_IP:6443;\n" \o
  "    }\n" \o
  "    server {\n" \o
  "        listen 6443;\n" \o
  "        proxy_pass k3s_servers;\n" \o
  "    }\n" \o
  "}\n" \o
  "EOF\n" \o
  "\n" \o
  "systemctl enable nginx\n" \o
  "systemctl restart nginx\n"

\* The control node's startup script, an f-string over the join secret.
MasterUserData(token) ==
  "#!/bin/bash\n" \o
  "# Install K3s server\n" \o
  "curl -sfL https://get.k3s.io | K3S_TOKEN=\"" \o token \o "\" sh -s - server \\\n" \o
  "  --cluster-init\n" \o
  "\n" \o
  "# Wait for K3s to be ready\n" \o
  "until kubectl get nodes 2>/dev/null; do\n" \o
  "    echo \"Waiting for K3s to start...\"\n" \o
  "    sleep 5\n" \o
  "done\n" \o
  "\n" \o
  "# Get kubeconfig for external access\n" \o
  "cp /etc/rancher/k3s/k3s.yaml /home/ubuntu/k3s.yaml\n" \o
  "chown ubuntu:ubuntu /home/ubuntu/k3s.yaml\n"

\* The lambda applied to Output.all(master_instance.private_ip).
WorkerUserData(token, ips) ==
  "#!/bin/bash\n" \o
  "# Install K3s agent\n" \o
  "curl -sfL https://get.k3s.io | K3S_TOKEN=\"" \o token \o
  "\" K3S_URL=https://" \o ips[1] \o ":6443 sh -s -\n"

\* Variant: the worker placeholders receive each other's address.
NginxUserDataFinal_Swapped(ips) ==
  Replace(Replace(Replace(nginx_user_data,
                          "MASTER_PRIVATE_IP", ips[1]),
                  "WORKER1_PRIVATE_IP", ips[3]),
          "WORKER2_PRIVATE_IP", ips[2])

\* The lambda applied to Output.all(master, worker1, worker2 private_ip).
NginxUserDataFinal(ips) ==
  Replace(Replace(Replace(nginx_user_data,
                          "MASTER_PRIVATE_IP", ips[1]),
                  "WORKER1_PRIVATE_IP", ips[2]),
          "WORKER2_PRIVATE_IP", ips[3])

\* ----------------------------------------------------- dependency graph
\* Variant: the master is also put into the load balancer's security group.
ResourceInputs_MasterInLbGroup(n) ==
  CASE n = vpc -> {}
    [] n = public_subnet -> {vpc}
    [] n = igw -> {vpc}
    [] n = public_route_table -> {vpc}
    [] n = route -> {public_route_table, igw}
    [] n = route_table_association -> {public_subnet, public_route_table}
    [] n = lb_security_group -> {vpc}
    [] n = k3s_security_group -> {vpc, public_subnet}
    [] n = master_instance -> {k3s_security_group, lb_security_group, public_subnet}
    [] n = worker1_instance -> {k3s_security_group, public_subnet}
    [] n = worker2_instance -> {k3s_security_group, public_subnet}
    [] n = nginx_instance -> {lb_security_group, public_subnet}

\* Variant: the instances are declared to depend on the internet route.
ResourceInputs_AfterRoute(n) ==
  CASE n = vpc -> {}
    [] n = public_subnet -> {vpc}
    [] n = igw -> {vpc}
    [] n = public_route_table -> {vpc}
    [] n = route -> {public_route_table, igw}
    [] n = route_table_association -> {public_subnet, public_route_table}
    [] n = lb_security_group -> {vpc}
    [] n = k3s_security_group -> {vpc, public_subnet}
    [] n = master_instance -> {k3s_security_group, public_subnet, route}
    [] n = worker1_instance -> {k3s_security_group, public_subnet, route}
    [] n = worker2_instance -> {k3s_security_group, public_subnet, route}
    [] n = nginx_instance -> {lb_security_group, public_subnet, route}

\* Owners of the outputs passed directly as constructor arguments.
ResourceInputs(n) ==
  CASE n = vpc -> {}
    [] n = public_subnet -> {vpc}
    [] n = igw -> {vpc}
    [] n = public_route_table -> {vpc}
    [] n = route -> {public_route_table, igw}
    [] n = route_table_association -> {public_subnet, public_route_table}
    [] n = lb_security_group -> {vpc}
    [] n = k3s_security_group -> {vpc, public_subnet}
    [] n = master_instance -> {k3s_security_group, public_subnet}
    [] n = worker1_instance -> {k3s_security_group, public_subnet}
    [] n = worker2_instance -> {k3s_security_group, public_subnet}
    [] n = nginx_instance -> {lb_security_group, public_subnet}

\* The instances whose private_ip the two derived values combine, in order.
WorkerSources == <<master_instance>>

\* Variant: the master's address is combined three times.
NginxSources_MasterOnly == <<master_instance, master_instance, master_instance>>

NginxSources == <<master_instance, worker1_instance, worker2_instance>>

\* Variant: worker1 is handed a literal script instead of the join script.
UserDataOf_Worker1Literal(n) ==
  CASE n = master_instance -> "literal"
    [] n = worker1_instance -> "literal"
    [] n = worker2_instance -> "worker_user_data"
    [] n = nginx_instance -> "nginx_user_data_final"
    [] OTHER -> "none"

\* Variant: the load balancer is handed a literal instead of the rendered
\* script.
UserDataOf_NginxLiteral(n) ==
  CASE n = master_instance -> "literal"
    [] n = worker1_instance -> "worker_user_data"
    [] n = worker2_instance -> "worker_user_data"
    [] n = nginx_instance -> "literal"
    [] OTHER -> "none"

\* Variant: the master is created without a startup script.
UserDataOf_MasterNone(n) ==
  CASE n = worker1_instance -> "worker_user_data"
    [] n = worker2_instance -> "worker_user_data"
    [] n = nginx_instance -> "nginx_user_data_final"
    [] OTHER -> "none"

\* Which value an instance receives as user_data.
UserDataOf(n) ==
  CASE n = master_instance -> "literal"
    [] n = worker1_instance -> "worker_user_data"
    [] n = worker2_instance -> "worker_user_data"
    [] n = nginx_instance -> "nginx_user_data_final"
    [] OTHER -> "none"

Range(s) == {s[i] : i \in 1..Len(s)}

\* Variant: the load balancer's script combines the master's address only.
DerivedSources_MasterOnly(d) ==
  CASE d = "worker_user_data" -> {master_instance}
    [] d = "nginx_user_data_final" -> {master_instance}
    [] OTHER -> {}

DerivedSources(d) ==
  CASE d = "worker_user_data" -> Range(WorkerSources)
    [] d = "nginx_user_data_final" -> Range(NginxSources)
    [] OTHER -> {}

\* Node A depends on node B iff an input of A references a value owned by B.
Deps(n) == ResourceInputs(n) \cup DerivedSources(UserDataOf(n))

\* The resources in the order the program declares them.
Declared ==
  <<vpc, public_subnet, igw, public_route_table, route, route_table_association,
    lb_security_group, k3s_security_group, master_instance, worker1_instance,
    worker2_instance, nginx_instance>>

\* Everything n depends on, directly or through other resources.
RECURSIVE Closure(_, _)
Closure(S, k) ==
  IF k = 0 THEN S ELSE Closure(S \cup UNION {Deps(d) : d \in S}, k - 1)

TransDepsOf == [n \in Nodes |-> Closure(Deps(n), Len(Declared))]

TransDeps(n) == TransDepsOf[n]

\* Batch k holds exactly the resources whose every dependency lies in the
\* batches before it, in declaration order.
RECURSIVE BatchesFrom(_)
BatchesFrom(placed) ==
  LET ready == {n \in Nodes \ placed : Deps(n) \subseteq placed}
  IN IF ready = {} THEN <<>>
     ELSE <<SelectSeq(Declared, LAMBDA n : n \in ready)>> \o BatchesFrom(placed \cup ready)

TopologicalBatches == BatchesFrom({})

\* The index of the batch that holds n; 0 if no batch does (n is on a cycle
\* or behind one).
BatchIndex ==
  [n \in Nodes |->
    IF \E k \in 1..Len(TopologicalBatches) : n \in Range(TopologicalBatches[k])
      THEN CHOOSE k \in 1..Len(TopologicalBatches) : n \in Range(TopologicalBatches[k])
      ELSE 0]

BatchOf(n) == BatchIndex[n]

\* ---------------------------------------------------------------- state
VARIABLES
  k3s_token,              \* the configured join secret
  nodeState,              \* lifecycle of each resource
  cause,                  \* why a resource is Failed
  outState,               \* settlement of each resource's output values
  private_ip,             \* the private address output of each instance
  worker_user_data,       \* derived value: the workers' join script
  nginx_user_data_final,  \* derived value: the load balancer's script
  renders,                \* how often each derived value's lambda has run
  user_data,              \* the script handed to each instance at creation
  scriptPc                \* position of the control node's startup script

vars ==
  <<k3s_token, nodeState, cause, outState, private_ip, worker_user_data,
    nginx_user_data_final, renders, user_data, scriptPc>>

\* The addresses the provider may assign inside public_subnet_cidr; the
\* first four addresses of a subnet are reserved by the provider.
IpPool == {"10.0.1." \o ToString(i) : i \in 4..(3 + NumAddrs)}

Pending == [state |-> "Pending", value |-> ""]

Init ==
  /\ k3s_token \in {ConfigOr(c, "super-secret-token") : c \in ConfigValues}
  /\ nodeState = [n \in Nodes |-> "Unstarted"]
  /\ cause = [n \in Nodes |-> "None"]
  /\ outState = [n \in Nodes |-> "Pending"]
  /\ private_ip = [n \in Instances |-> ""]
  /\ worker_user_data = Pending
  /\ nginx_user_data_final = Pending
  /\ renders = [d \in {"worker_user_data", "nginx_user_data_final"} |-> 0]
  /\ user_data = [n \in Instances |-> ""]
  /\ scriptPc = "off"

\* ------------------------------------------------------- derived values
DerivedState(d) ==
  CASE d = "worker_user_data" -> worker_user_data.state
    [] d = "nginx_user_data_final" -> nginx_user_data_final.state
    [] OTHER -> "Resolved"

DerivedValue(n) ==
  CASE UserDataOf(n) = "literal" -> MasterUserData(k3s_token)
    [] UserDataOf(n) = "worker_user_data" -> worker_user_data.value
    [] UserDataOf(n) = "nginx_user_data_final" -> nginx_user_data_final.value
    [] OTHER -> ""

Ips(sources) == [i \in 1..Len(sources) |-> private_ip[sources[i]]]

\* Output.all(master_instance.private_ip).apply(...): the lambda runs once
\* every source has resolved.
RenderWorkerUserData ==
  /\ worker_user_data.state = "Pending"
  /\ \A m \in Range(WorkerSources) : outState[m] = "Resolved"
  /\ worker_user_data' =
       [state |-> "Resolved", value |-> WorkerUserData(k3s_token, Ips(WorkerSources))]
  /\ renders' = [renders EXCEPT !["worker_user_data"] = @ + 1]
  /\ UNCHANGED <<k3s_token, nodeState, cause, outState, private_ip,
                 nginx_user_data_final, user_data, scriptPc>>

FailWorkerUserData ==
  /\ worker_user_data.state = "Pending"
  /\ \E m \in Range(WorkerSources) : outState[m] = "Failed"
  /\ worker_user_data' = [state |-> "Failed", value |-> ""]
  /\ UNCHANGED <<k3s_token, nodeState, cause, outState, private_ip,
                 nginx_user_data_final, renders, user_data, scriptPc>>

\* Output.all(master, worker1, worker2 private_ip).apply(...).
RenderNginxUserDataFinal ==
  /\ nginx_user_data_final.state = "Pending"
  /\ \A m \in Range(NginxSources) : outState[m] = "Resolved"
  /\ nginx_user_data_final' =
       [state |-> "Resolved", value |-> NginxUserDataFinal(Ips(NginxSources))]
  /\ renders' = [renders EXCEPT !["nginx_user_data_final"] = @ + 1]
  /\ UNCHANGED <<k3s_token, nodeState, cause, outState, private_ip,
                 worker_user_data, user_data, scriptPc>>

\* Variant: the combined value fails only once every source has failed.
FailNginxUserDataFinal_AllFailed ==
  /\ nginx_user_data_final.state = "Pending"
  /\ \A m \in Range(NginxSources) : outState[m] = "Failed"
  /\ nginx_user_data_final' = [state |-> "Failed", value |-> ""]
  /\ UNCHANGED <<k3s_token, nodeState, cause, outState, private_ip,
                 worker_user_data, renders, user_data, scriptPc>>

FailNginxUserDataFinal ==
  /\ nginx_user_data_final.state = "Pending"
  /\ \E m \in Range(NginxSources) : outState[m] = "Failed"
  /\ nginx_user_data_final' = [state |-> "Failed", value |-> ""]
  /\ UNCHANGED <<k3s_token, nodeState, cause, outState, private_ip,
                 worker_user_data, renders, user_data, scriptPc>>

\* ------------------------------------------------------------ resources
\* Variant: a creation call waits only for inputs that have not failed.
InputsResolved_NoWait(n) ==
  /\ \A d \in ResourceInputs(n) : outState[d] # "Failed"
  /\ DerivedState(UserDataOf(n)) # "Failed"

InputsResolved(n) ==
  /\ \A d \in ResourceInputs(n) : outState[d] = "Resolved"
  /\ DerivedState(UserDataOf(n)) = "Resolved"

InputFailed(n) ==
  \/ \E d \in ResourceInputs(n) : outState[d] = "Failed"
  \/ DerivedState(UserDataOf(n)) = "Failed"

\* The creation call for n is issued with its resolved inputs.
StartCreate(n) ==
  /\ nodeState[n] = "Unstarted"
  /\ InputsResolved(n)
  /\ nodeState' = [nodeState EXCEPT ![n] = "Creating"]
  /\ user_data' = IF n \in Instances
                    THEN [user_data EXCEPT ![n] = DerivedValue(n)]
                    ELSE user_data
  /\ UNCHANGED <<k3s_token, cause, outState, private_ip, worker_user_data,
                 nginx_user_data_final, renders, scriptPc>>

UsedIps == {private_ip[i] : i \in Instances} \ {""}

\* The creation call returns success; the outputs of n resolve. An instance
\* receives a free address of the subnet and boots into its startup script.
CreateSucceeds(n) ==
  /\ nodeState[n] = "Creating"
  /\ nodeState' = [nodeState EXCEPT ![n] = "Created"]
  /\ outState' = [outState EXCEPT ![n] = "Resolved"]
  /\ IF n \in Instances
       THEN \E ip \in IpPool \ UsedIps : private_ip' = [private_ip EXCEPT ![n] = ip]
       ELSE UNCHANGED private_ip
  /\ scriptPc' = IF n = master_instance /\ user_data[n] # "" THEN "running" ELSE scriptPc
  /\ UNCHANGED <<k3s_token, cause, worker_user_data, nginx_user_data_final,
                 renders, user_data>>

\* The creation call returns a provider error; the outputs of n fail.
CreateFails(n) ==
  /\ nodeState[n] = "Creating"
  /\ Cardinality({m \in Nodes : cause[m] = "ProviderError"}) < MaxFailures
  /\ nodeState' = [nodeState EXCEPT ![n] = "Failed"]
  /\ cause' = [cause EXCEPT ![n] = "ProviderError"]
  /\ outState' = [outState EXCEPT ![n] = "Failed"]
  /\ UNCHANGED <<k3s_token, private_ip, worker_user_data, nginx_user_data_final,
                 renders, user_data, scriptPc>>

\* A resource one of whose inputs failed is never attempted.
SkipUpstream(n) ==
  /\ nodeState[n] = "Unstarted"
  /\ InputFailed(n)
  /\ nodeState' = [nodeState EXCEPT ![n] = "Failed"]
  /\ cause' = [cause EXCEPT ![n] = "UpstreamFailure"]
  /\ outState' = [outState EXCEPT ![n] = "Failed"]
  /\ UNCHANGED <<k3s_token, private_ip, worker_user_data, nginx_user_data_final,
                 renders, user_data, scriptPc>>

\* ------------------------------------------- control node startup script
\* The script runs from boot: it installs the K3s server and enters the
\* until loop ("running"). kubectl get nodes fails: echo, sleep 5, and the
\* loop polls again; the loop keeps no counter, so the script is back where
\* it was.
PollRetry ==
  /\ scriptPc = "running"
  /\ scriptPc' = "running"
  /\ UNCHANGED <<k3s_token, nodeState, cause, outState, private_ip,
                 worker_user_data, nginx_user_data_final, renders, user_data>>

\* kubectl get nodes succeeds: the until loop ends, the kubeconfig is
\* copied and chowned, and the script is over ("ready").
PollSucceeds ==
  /\ scriptPc = "running"
  /\ scriptPc' = "ready"
  /\ UNCHANGED <<k3s_token, nodeState, cause, outState, private_ip,
                 worker_user_data, nginx_user_data_final, renders, user_data>>

\* -------------------------------------------------------- specification
\* The steps of the provisioning run itself.
EngineNext ==
  \/ \E n \in Nodes : StartCreate(n)
  \/ \E n \in Nodes : CreateSucceeds(n)
  \/ \E n \in Nodes : CreateFails(n)
  \/ \E n \in Nodes : SkipUpstream(n)
  \/ RenderWorkerUserData
  \/ FailWorkerUserData
  \/ RenderNginxUserDataFinal
  \/ FailNginxUserDataFinal

\* The steps taken inside the control node, unseen by the run.
ScriptNext ==
  \/ PollRetry
  \/ PollSucceeds

Next == EngineNext \/ ScriptNext

Spec == Init /\ [][Next]_vars

\* Every provider call eventually returns and a run that can take a step
\* eventually takes one; nothing is assumed about the startup script.
Fairness == WF_vars(EngineNext)

FairSpec == Spec /\ Fairness

\* ------------------------------------------------------------ vocabulary
\* A creation call has been issued for n.
Attempted(n) == nodeState[n] \in {"Creating", "Created"} \/ cause[n] = "ProviderError"

Terminal(n) == nodeState[n] \in {"Created", "Failed"}

AllTerminal == \A n \in Nodes : Terminal(n)

\* No step of the run is possible any more.
Quiescent == ~ENABLED EngineNext

Workers == {worker1_instance, worker2_instance}

\* ------------------------------------------------------------------- C1
\* C1: the creation call for worker1-instance and for worker2-instance is
\* issued only after master-instance is Created and its private_ip is
\* Resolved; the workers do not wait for each other: as soon as the join
\* script is available, the creation of each worker that is still Unstarted
\* is enabled, whatever the state of the other worker.
C1_WorkersAfterMaster ==
  /\ \A w \in Workers :
       Attempted(w) =>
         /\ nodeState[master_instance] = "Created"
         /\ outState[master_instance] = "Resolved"
         /\ private_ip[master_instance] # ""
  /\ \A w \in Workers :
       (worker_user_data.state = "Resolved" /\ nodeState[w] = "Unstarted")
         => ENABLED StartCreate(w)

\* Both worker creation calls are in flight at the same time.
C1_Witness ==
  /\ nodeState[worker1_instance] = "Creating"
  /\ nodeState[worker2_instance] = "Creating"

\* ------------------------------------------------------------------- C2
\* C2: the lambda of nginx_user_data_final has run zero times while any of
\* the master, worker1 and worker2 addresses is Pending (or Failed), never
\* more than once, exactly once when all three are Resolved and the run is
\* over, and the creation call for nginx-instance is issued only after it.
C2_RenderOnce ==
  /\ (\E m \in {master_instance, worker1_instance, worker2_instance} :
        outState[m] # "Resolved")
       => renders["nginx_user_data_final"] = 0
  /\ renders["nginx_user_data_final"] <= 1
  /\ (Quiescent /\ \A m \in {master_instance, worker1_instance, worker2_instance} :
        outState[m] = "Resolved")
       => renders["nginx_user_data_final"] = 1
  /\ Attempted(nginx_instance) =>
       /\ renders["nginx_user_data_final"] = 1
       /\ nginx_user_data_final.state = "Resolved"

\* The script has been rendered and the load balancer's creation is issued.
C2_Witness ==
  /\ renders["nginx_user_data_final"] = 1
  /\ nodeState[nginx_instance] = "Creating"

\* ------------------------------------------------------------------- C3
\* C3: if the creation of master-instance failed with a provider error, no
\* creation call is ever issued for worker1-instance, worker2-instance or
\* nginx-instance, none of them has a resolved private address, a Failed one
\* has cause UpstreamFailure, and the run is not over before all three are
\* Failed (while one is Unstarted a step of the run is possible).
C3_MasterFailure ==
  cause[master_instance] = "ProviderError" =>
    \A n \in {worker1_instance, worker2_instance, nginx_instance} :
      /\ ~Attempted(n)
      /\ nodeState[n] \in {"Unstarted", "Failed"}
      /\ nodeState[n] = "Failed" => cause[n] = "UpstreamFailure"
      /\ outState[n] # "Resolved"
      /\ private_ip[n] = ""
      /\ nodeState[n] = "Unstarted" => ENABLED EngineNext

\* The master failed and the run ended with the three dependents Failed.
C3_Witness ==
  /\ cause[master_instance] = "ProviderError"
  /\ Quiescent
  /\ \A n \in {worker1_instance, worker2_instance, nginx_instance} :
       nodeState[n] = "Failed" /\ cause[n] = "UpstreamFailure"

\* ------------------------------------------------------------------- C4
\* C4: failures are node-local. A resource is Failed with UpstreamFailure
\* only if a resource among its transitive dependencies failed, and a
\* resource with a failed transitive dependency was never attempted; the run
\* is not over while a resource none of whose transitive dependencies failed
\* is still Unstarted or Creating (a step of the run is possible). After
\* worker1-instance failed, nginx-instance is never attempted, while the
\* creation of worker2-instance stays enabled; after lb-secgrp failed, the
\* creation of master-instance and of each worker stays enabled once its
\* subnet, its security group and its startup script are resolved.
C4_NodeLocal ==
  /\ \A n \in Nodes :
       LET failedUp == {d \in TransDeps(n) : nodeState[d] = "Failed"}
       IN /\ cause[n] = "UpstreamFailure" => (failedUp # {} /\ nodeState[n] = "Failed")
          /\ failedUp # {} => ~Attempted(n)
          /\ (failedUp = {} /\ nodeState[n] \in {"Unstarted", "Creating"})
               => ENABLED EngineNext
  /\ cause[worker1_instance] = "ProviderError" =>
       /\ ~Attempted(nginx_instance)
       /\ nodeState[worker2_instance] = "Unstarted" => ENABLED StartCreate(worker2_instance)
       /\ nodeState[worker2_instance] = "Creating" =>
            ENABLED CreateSucceeds(worker2_instance)
  /\ cause[lb_security_group] = "ProviderError" =>
       \A n \in {master_instance, worker1_instance, worker2_instance} :
         /\ (/\ nodeState[n] = "Unstarted"
             /\ outState[public_subnet] = "Resolved"
             /\ outState[k3s_security_group] = "Resolved"
             /\ DerivedState(UserDataOf(n)) = "Resolved") => ENABLED StartCreate(n)
         /\ nodeState[n] = "Creating" => ENABLED CreateSucceeds(n)

\* worker1 failed, worker2 was still created, nginx was never attempted.
C4_Witness ==
  /\ cause[worker1_instance] = "ProviderError"
  /\ nodeState[worker2_instance] = "Created"
  /\ nodeState[nginx_instance] = "Failed"
  /\ cause[nginx_instance] = "UpstreamFailure"

\* ------------------------------------------------------------------- C5
\* C5 as stated: the control node's private address is Resolved, a worker
\* join script is rendered and a worker creation is issued only after the
\* readiness poll of the control node's startup script has succeeded.
C5_Original ==
  /\ outState[master_instance] = "Resolved" => scriptPc = "ready"
  /\ renders["worker_user_data"] > 0 => scriptPc = "ready"
  /\ \A w \in Workers : Attempted(w) => scriptPc = "ready"

\* C5 as amended: the control node's private address is Resolved exactly
\* when the creation call of master-instance has returned success, at which
\* point its startup script has been launched but its readiness poll need
\* not have succeeded; no worker join script is rendered and no worker
\* creation is issued before that address is Resolved, and the rendering of
\* the join script does not wait for the poll.
C5_Amended ==
  /\ outState[master_instance] = "Resolved" <=> nodeState[master_instance] = "Created"
  /\ outState[master_instance] = "Resolved" => scriptPc \in {"running", "ready"}
  /\ outState[master_instance] # "Resolved" => scriptPc = "off"
  /\ renders["worker_user_data"] > 0 => outState[master_instance] = "Resolved"
  /\ \A w \in Workers : Attempted(w) => renders["worker_user_data"] = 1
  /\ (outState[master_instance] = "Resolved" /\ worker_user_data.state = "Pending")
       => ENABLED RenderWorkerUserData

\* A worker is created while the control node still polls for readiness.
C5_Witness ==
  /\ scriptPc = "running"
  /\ nodeState[worker1_instance] = "Created"

\* ------------------------------------------------------------------- C6
\* C6: every startup script handed to an instance at creation is fully
\* substituted: a worker's script has K3S_URL=https://<master address>:6443
\* and the configured join secret, the master's script has the configured
\* join secret, and the load balancer's script lists the master, worker1
\* and worker2 addresses, in that order, as its upstream servers and
\* contains none of the placeholders.
C6_Substituted ==
  /\ \A w \in Workers :
       Attempted(w) =>
         /\ Occurrences(user_data[w],
              "K3S_URL=https://" \o private_ip[master_instance] \o ":6443 ") = 1
         /\ Occurrences(user_data[w], "K3S_TOKEN=\"" \o k3s_token \o "\" ") = 1
         /\ private_ip[master_instance] \in IpPool
  /\ Attempted(master_instance) =>
       Occurrences(user_data[master_instance], "K3S_TOKEN=\"" \o k3s_token \o "\" ") = 1
  /\ Attempted(nginx_instance) =>
       /\ Occurrences(user_data[nginx_instance],
            "    upstream k3s_servers {\n" \o
            "        server " \o private_ip[master_instance] \o ":6443;\n" \o
            "        server " \o private_ip[worker1_instance] \o ":6443;\n" \o
            "        server " \o private_ip[worker2_instance] \o ":6443;\n" \o
            "    }\n") = 1
       /\ \A i \in {master_instance, worker1_instance, worker2_instance} :
            private_ip[i] \in IpPool
       /\ ~Contains(user_data[nginx_instance], "MASTER_PRIVATE_IP")
       /\ ~Contains(user_data[nginx_instance], "WORKER1_PRIVATE_IP")
       /\ ~Contains(user_data[nginx_instance], "WORKER2_PRIVATE_IP")
       /\ ~Contains(user_data[nginx_instance], "PRIVATE_IP")
       /\ Len(user_data[nginx_instance]) =
            Len(nginx_user_data) - Len("MASTER_PRIVATE_IP") - Len("WORKER1_PRIVATE_IP")
              - Len("WORKER2_PRIVATE_IP") + Len(private_ip[master_instance])
              + Len(private_ip[worker1_instance]) + Len(private_ip[worker2_instance])

\* The load balancer has been created from a rendered script.
C6_Witness ==
  /\ nodeState[nginx_instance] = "Created"
  /\ user_data[nginx_instance] # ""
  /\ k3s_token = "my-token"

\* ------------------------------------------------------------------- C7
\* For each of the 12 declared resources, the resource is Creating or
\* Created only if every deferred value among its inputs is Resolved, an
\* output value (and a value derived from outputs) is Resolved only if the
\* resource that owns it is Created, and lifecycle states only advance:
\* Unstarted to Creating or Failed, Creating to Created or Failed, Pending to
\* Resolved or Failed, and nothing changes once terminal.
C7_StateOk ==
  /\ Cardinality(Nodes) = 12
  /\ \A n \in Nodes :
       /\ nodeState[n] \in {"Creating", "Created"} =>
            /\ \A d \in Deps(n) : outState[d] = "Resolved" /\ nodeState[d] = "Created"
            /\ DerivedState(UserDataOf(n)) = "Resolved"
       /\ outState[n] = "Resolved" => nodeState[n] = "Created"
       /\ outState[n] = "Pending" <=> nodeState[n] \in {"Unstarted", "Creating"}
  /\ \A i \in Instances : private_ip[i] # "" => nodeState[i] = "Created"
  /\ worker_user_data.state = "Resolved" =>
       \A m \in {master_instance} : nodeState[m] = "Created"
  /\ nginx_user_data_final.state = "Resolved" =>
       \A m \in {master_instance, worker1_instance, worker2_instance} :
         nodeState[m] = "Created"

C7_Advance ==
  /\ \A n \in Nodes :
       /\ <<nodeState[n], nodeState'[n]>> \in
            {<<"Unstarted", "Unstarted">>, <<"Unstarted", "Creating">>,
             <<"Unstarted", "Failed">>, <<"Creating", "Creating">>,
             <<"Creating", "Created">>, <<"Creating", "Failed">>,
             <<"Created", "Created">>, <<"Failed", "Failed">>}
       /\ outState[n] # "Pending" => outState'[n] = outState[n]
       /\ cause[n] # "None" => cause'[n] = cause[n]
  /\ \A i \in Instances : private_ip[i] # "" => private_ip'[i] = private_ip[i]
  /\ worker_user_data.state # "Pending" => worker_user_data' = worker_user_data
  /\ nginx_user_data_final.state # "Pending" =>
       nginx_user_data_final' = nginx_user_data_final

\* C7: in every reachable state the conditions of C7_StateOk hold for the
\* 12 resources and their values, and every step advances lifecycle states
\* as C7_Advance allows, leaving terminal ones unchanged.
C7_Lifecycle == []C7_StateOk /\ [][C7_Advance]_vars

\* The cluster security group is being created while the master waits.
C7_Witness ==
  /\ nodeState[k3s_security_group] = "Creating"
  /\ nodeState[master_instance] = "Unstarted"
  /\ nodeState[public_subnet] = "Created"

\* ------------------------------------------------------------------- C8
\* C8: the declared dependency graph is acyclic (every resource lies in a
\* batch); every resource lies in a strictly later batch than each of its
\* dependencies, and in the first batch that comes after all of them;
\* master-instance is alone in its batch, worker1-instance and
\* worker2-instance form the next batch and nginx-instance alone the last;
\* and in a run no instance is attempted before every instance of an
\* earlier batch is Created.
C8_Batches ==
  /\ UNION {Range(TopologicalBatches[k]) : k \in 1..Len(TopologicalBatches)} = Nodes
  /\ \A n \in Nodes : \A d \in Deps(n) : 0 < BatchOf(d) /\ BatchOf(d) < BatchOf(n)
  /\ \A n \in Nodes :
       /\ Deps(n) = {} => BatchOf(n) = 1
       /\ Deps(n) # {} => \E d \in Deps(n) : BatchOf(n) = BatchOf(d) + 1
  /\ Len(TopologicalBatches) = 6
  /\ TopologicalBatches[4] = <<master_instance>>
  /\ TopologicalBatches[5] = <<worker1_instance, worker2_instance>>
  /\ TopologicalBatches[6] = <<nginx_instance>>
  /\ \A i, j \in Instances :
       (Attempted(i) /\ BatchOf(j) < BatchOf(i)) => nodeState[j] = "Created"

\* The first two instance batches are done and the last one is in flight.
C8_Witness ==
  /\ nodeState[master_instance] = "Created"
  /\ nodeState[worker1_instance] = "Created"
  /\ nodeState[worker2_instance] = "Created"
  /\ nodeState[nginx_instance] = "Creating"
  /\ nodeState[route] = "Created"

\* ------------------------------------------------------------------- C9
\* The bootstrap stage a state of the run is in.
Stage ==
  IF nodeState[nginx_instance] = "Created" THEN "LoadBalancerConfigured"
  ELSE IF \A w \in Workers : nodeState[w] = "Created" THEN "WorkersReady"
  ELSE IF worker_user_data.state = "Resolved" THEN "WorkersJoining"
  ELSE IF outState[master_instance] = "Resolved" THEN "ControlReady"
  ELSE "ControlPending"

StageOrder ==
  <<"ControlPending", "ControlReady", "WorkersJoining", "WorkersReady",
    "LoadBalancerConfigured">>

StageRank(st) == CHOOSE k \in 1..Len(StageOrder) : StageOrder[k] = st

AllCreated == \A n \in Nodes : nodeState[n] = "Created"

NoProviderError == \A n \in Nodes : cause[n] # "ProviderError"

C9_StageStep == StageRank(Stage') \in {StageRank(Stage), StageRank(Stage) + 1}

C9_Final ==
  /\ Quiescent => (AllTerminal /\ worker_user_data.state # "Pending"
                     /\ nginx_user_data_final.state # "Pending")
  /\ (AllTerminal /\ NoProviderError) =>
       (AllCreated /\ Stage = "LoadBalancerConfigured")

\* C9: under fair scheduling every run eventually has all 12 resources
\* terminal (Created or Failed) and stays so; the run never comes to rest
\* with a resource or a derived value still pending; a step of the run
\* keeps the bootstrap stage or moves it to the next one in the order
\* ControlPending, ControlReady, WorkersJoining, WorkersReady,
\* LoadBalancerConfigured; and if no creation call failed the run ends with
\* all 12 resources Created in stage LoadBalancerConfigured.
C9_Terminates == <>[]AllTerminal /\ []C9_Final /\ [][C9_StageStep]_vars

\* Every resource has been created.
C9_Witness == AllCreated /\ Stage = "LoadBalancerConfigured" /\ Cardinality(Nodes) = 12

\* ------------------------------------------------------------------ C10
\* C10: no instance takes an input from igw-route or
\* public-route-table-association: whatever the state of those two, the
\* creation of an instance that is still Unstarted is enabled as soon as its
\* subnet, its security group and its startup script are resolved.
C10_NotOrderedAfterRoutes ==
  /\ \A n \in {master_instance} \cup Workers :
       (/\ nodeState[n] = "Unstarted"
        /\ outState[public_subnet] = "Resolved"
        /\ outState[k3s_security_group] = "Resolved"
        /\ DerivedState(UserDataOf(n)) = "Resolved") => ENABLED StartCreate(n)
  /\ (/\ nodeState[nginx_instance] = "Unstarted"
      /\ outState[public_subnet] = "Resolved"
      /\ outState[lb_security_group] = "Resolved"
      /\ nginx_user_data_final.state = "Resolved") => ENABLED StartCreate(nginx_instance)

\* All four instances are Created, their startup scripts launched, while
\* the route to the internet gateway and the route table association have
\* not even been started.
C10_Witness ==
  /\ \A n \in Instances : nodeState[n] = "Created"
  /\ nodeState[route] = "Unstarted"
  /\ nodeState[route_table_association] = "Unstarted"

====
